---- MODULE Spec2Model ----
(***************************************************************************)
(* Model of the car-listing gatherer: the CSV record store                 *)
(* (car_scraper/database/csv_manager.py), the record schema                *)
(* (car_scraper/models/car_posting.py) and the per-element extraction of   *)
(* car_scraper/scrapers/response_motors_scraper.py.                        *)
(*                                                                         *)
(* Python values are represented as follows.  A str is a TLA+ string; the  *)
(* text a regular expression scans is a sequence of one-character strings. *)
(* An Optional value is a sequence of length 0 (None) or 1 (the value).    *)
(* A call that may raise returns [raised |-> BOOLEAN, val |-> <<..>>].     *)
(***************************************************************************)
EXTENDS Integers, Sequences, FiniteSets, TLC

\* The record store:
\*   file    the rows of csv_path below its header, in file order
\*   tmp     the rows of the .tmp file below its header, None when absent
\*   pc      where the writer stands inside save_posting
\*   arg     the posting of the save_posting call under way or last made
\*   pre     the rows of the file when that call began
\*   is_new  the local is_new of that call
\*   ret     the outcome of the operation last called
\* The extractor:
\*   page      the listing elements of the page last gathered
\*   nows      datetime.now() at the construction of each element's record
\*   gathered  what _extract_listings returned for them
VARIABLES file, tmp, pc, arg, pre, is_new, ret, page, nows, gathered

vars == <<file, tmp, pc, arg, pre, is_new, ret, page, nows, gathered>>

None == <<>>
Some(v) == <<v>>

Raised == [raised |-> TRUE, val |-> <<>>]
Returned(v) == [raised |-> FALSE, val |-> <<v>>]

(***************************************************************************)
(* Bounds of the model.                                                    *)
(***************************************************************************)
\* scraped_at timestamps are 0..MaxTime (seconds of one minute)
MaxTime == 1
\* get_recent_postings is called with limit 0..MaxLimit
MaxLimit == 2
\* a page holds at most MaxPageLen listing elements
MaxPageLen == 2
\* a file found on disk holds at most MaxRows rows
MaxRows == 3

(***************************************************************************)
(* car_posting.py: the schema and its validators.                          *)
(***************************************************************************)
MinYear == 1900
\* datetime.now().year at the time of the run
CurrentYear == 2026

fieldnames == <<"id", "source_url", "source_platform", "title", "make", "model",
                "year", "mileage", "price", "currency", "description", "location",
                "image_urls", "thumbnail_url", "scraped_at", "features",
                "condition", "vin">>

FieldSet == {fieldnames[i] : i \in 1..Len(fieldnames)}

\* fields typed str with no Optional: an explicit None is rejected
RequiredStr == {"id", "source_url", "source_platform", "title", "currency"}
OptionalStr == {"make", "model", "description", "location", "thumbnail_url",
                "condition", "vin"}

validate_year(v) == v = None \/ ~(v[1] < MinYear \/ v[1] > CurrentYear + 1)

validate_price(v) == ~(v /= None /\ v[1] < 0)

validate_mileage(v) == ~(v /= None /\ v[1] < 0)

\* CarPosting(**kw): kw maps every field to an Optional value (None where the
\* caller passed None); the construction raises on a None in a non-Optional
\* field and on a validator's ValueError.
CarPosting(kw) ==
    IF /\ \A f \in RequiredStr : kw[f] /= None
       /\ kw["image_urls"] /= None
       /\ kw["features"] /= None
       /\ kw["scraped_at"] /= None
       /\ validate_year(kw["year"])
       /\ validate_price(kw["price"])
       /\ validate_mileage(kw["mileage"])
    THEN Returned([f \in FieldSet |->
                     IF f \in RequiredStr \cup {"image_urls", "features", "scraped_at"}
                     THEN kw[f][1] ELSE kw[f]])
    ELSE Raised

(***************************************************************************)
(* Value domains the decoders search: a parse succeeds exactly when the    *)
(* text is the rendering of some value of the domain.                      *)
(***************************************************************************)
Times == 0..MaxTime
IntSamples == {-1, 0, 7, 45000, 1899, 2019, CurrentYear + 1, CurrentYear + 2, 2099}
\* a float is held as its number of tenths: 259990 is 25999.0
FloatSamples == {-10, 0, 5, 259990}
ImageLists == {<<>>, <<"https://responsemotors.com/i.png">>, <<"https://cdn/j.png">>}
FeatureDicts == {<<>>, <<<<"doors", "4">>>>}

\* str(int)
IntStr(n) == ToString(n)

\* repr(float), one decimal place
FloatStr(x) ==
    IF x < 0 THEN "-" \o ToString((-x) \div 10) \o "." \o ToString((-x) % 10)
    ELSE ToString(x \div 10) \o "." \o ToString(x % 10)

\* datetime.isoformat() of second t of a fixed minute
IsoFormat(t) ==
    "2024-01-01T00:00:" \o (IF t < 10 THEN "0" \o ToString(t) ELSE ToString(t))

RECURSIVE JoinQuoted(_)
JoinQuoted(l) ==
    IF l = <<>> THEN ""
    ELSE IF Len(l) = 1 THEN "\"" \o l[1] \o "\""
    ELSE "\"" \o l[1] \o "\", " \o JoinQuoted(Tail(l))

\* json.dumps of a list of str
JsonDumpsList(l) == "[" \o JoinQuoted(l) \o "]"

RECURSIVE JoinPairs(_)
JoinPairs(d) ==
    IF d = <<>> THEN ""
    ELSE IF Len(d) = 1 THEN "\"" \o d[1][1] \o "\": \"" \o d[1][2] \o "\""
    ELSE "\"" \o d[1][1] \o "\": \"" \o d[1][2] \o "\", " \o JoinPairs(Tail(d))

\* json.dumps of a dict of str to str
JsonDumpsDict(d) == "{" \o JoinPairs(d) \o "}"

\* the renderings of the values of each domain
JsonListText == [l \in ImageLists |-> JsonDumpsList(l)]
JsonDictText == [d \in FeatureDicts |-> JsonDumpsDict(d)]
IsoText == [t \in Times |-> IsoFormat(t)]
IntText == [n \in IntSamples |-> IntStr(n)]
FloatText == [x \in FloatSamples |-> FloatStr(x)]
WholeFloats == {x \in FloatSamples : x % 10 = 0}
WholeFloatText == [x \in WholeFloats |-> IntStr(x \div 10)]

\* json.loads into List[str]: a JSONDecodeError, or a value the schema
\* rejects, raises
JsonLoadsList(text) ==
    IF \E l \in ImageLists : JsonListText[l] = text
    THEN Returned(CHOOSE l \in ImageLists : JsonListText[l] = text)
    ELSE Raised

JsonLoadsDict(text) ==
    IF \E d \in FeatureDicts : JsonDictText[d] = text
    THEN Returned(CHOOSE d \in FeatureDicts : JsonDictText[d] = text)
    ELSE Raised

\* datetime.fromisoformat: ValueError on any other text
FromIsoFormat(text) ==
    IF \E t \in Times : IsoText[t] = text
    THEN Returned(CHOOSE t \in Times : IsoText[t] = text)
    ELSE Raised

\* int(text) inside try/except (ValueError, TypeError): None on failure
IntOrNone(text) ==
    IF \E n \in IntSamples : IntText[n] = text
    THEN Some(CHOOSE n \in IntSamples : IntText[n] = text)
    ELSE None

\* float(text) inside try/except: accepts "25999.0" and "25999"
FloatOrNone(text) ==
    IF \E x \in FloatSamples : FloatText[x] = text
    THEN Some(CHOOSE x \in FloatSamples : FloatText[x] = text)
    ELSE IF \E x \in WholeFloats : WholeFloatText[x] = text
    THEN Some(CHOOSE x \in WholeFloats : WholeFloatText[x] = text)
    ELSE None

(***************************************************************************)
(* csv_manager.py: serialization.                                          *)
(***************************************************************************)
\* CarPosting.to_dict: model_dump(mode='json') renders the datetime as text
to_dict(p) == [p EXCEPT !["scraped_at"] = IsoFormat(p["scraped_at"])]

\* _posting_to_row: the structured fields become JSON text; scraped_at is
\* already text, so the isinstance test fails and the text is kept
posting_to_row(p) ==
    LET data == to_dict(p)
    IN  [data EXCEPT !["image_urls"] = JsonDumpsList(data["image_urls"]),
                     !["features"] = JsonDumpsDict(data["features"])]

\* csv.DictWriter.writerow followed by csv.DictReader: every cell is read
\* back as text; None is written as the empty cell, a number as str(number)
CsvCell(f, v) ==
    IF f \in OptionalStr THEN (IF v = None THEN "" ELSE v[1])
    ELSE IF f \in {"year", "mileage"} THEN (IF v = None THEN "" ELSE IntStr(v[1]))
    ELSE IF f = "price" THEN (IF v = None THEN "" ELSE FloatStr(v[1]))
    ELSE v

writerow(row) == [f \in FieldSet |-> CsvCell(f, row[f])]

\* _row_to_posting
row_to_posting(row) ==
    LET image_urls == IF row["image_urls"] /= ""
                      THEN JsonLoadsList(row["image_urls"])
                      ELSE Returned(<<>>)
        features == IF row["features"] /= ""
                    THEN JsonLoadsDict(row["features"])
                    ELSE Returned(<<>>)
        scraped_at == IF row["scraped_at"] /= ""
                      THEN FromIsoFormat(row["scraped_at"])
                      ELSE Returned(0)
        kw == [f \in FieldSet |->
                 IF f = "image_urls" THEN image_urls.val
                 ELSE IF f = "features" THEN features.val
                 ELSE IF f = "scraped_at"
                      THEN (IF row[f] /= "" THEN scraped_at.val ELSE None)
                 ELSE IF f \in {"year", "mileage"}
                      THEN (IF row[f] /= "" THEN IntOrNone(row[f]) ELSE None)
                 ELSE IF f = "price"
                      THEN (IF row[f] /= "" THEN FloatOrNone(row[f]) ELSE None)
                 ELSE (IF row[f] = "" THEN None ELSE Some(row[f]))]
    IN  IF image_urls.raised \/ features.raised \/ scraped_at.raised
        THEN Raised
        ELSE CarPosting(kw)

(***************************************************************************)
(* response_motors_scraper.py: text helpers.  A text is a sequence of      *)
(* one-character strings.                                                  *)
(***************************************************************************)
Digits == {"0", "1", "2", "3", "4", "5", "6", "7", "8", "9"}
Whitespace == {" ", "\t", "\n"}
\* the characters of the sample texts that the regular expression class \W holds
NonWord == Whitespace \cup {"-", "/", ".", ",", "#", ":"}

IsWordChar(c) == c \notin NonWord

DigitVal(c) == CHOOSE d \in 0..9 : ToString(d) = c

RECURSIVE Str(_)
\* the str a text stands for
Str(t) == IF t = <<>> THEN "" ELSE t[1] \o Str(Tail(t))

RECURSIVE LStrip(_)
LStrip(t) == IF t /= <<>> /\ t[1] \in Whitespace THEN LStrip(Tail(t)) ELSE t

RECURSIVE RStrip(_)
RStrip(t) ==
    IF t /= <<>> /\ t[Len(t)] \in Whitespace
    THEN RStrip(SubSeq(t, 1, Len(t) - 1)) ELSE t

\* str.strip()
Strip(t) == RStrip(LStrip(t))

\* the pattern read as a token between whitespace
YearAtWhitespace(t, i) ==
    /\ i + 3 <= Len(t)
    /\ \A j \in i..(i + 3) : t[j] \in Digits
    /\ \/ t[i] = "1" /\ t[i + 1] = "9"
       \/ t[i] = "2" /\ t[i + 1] = "0"
    /\ i = 1 \/ t[i - 1] \in Whitespace
    /\ i + 3 = Len(t) \/ t[i + 4] \in Whitespace

\* the pattern \b(19\d{2}|20\d{2})\b matches at index i of t
YearAt(t, i) ==
    /\ i + 3 <= Len(t)
    /\ \A j \in i..(i + 3) : t[j] \in Digits
    /\ \/ t[i] = "1" /\ t[i + 1] = "9"
       \/ t[i] = "2" /\ t[i + 1] = "0"
    /\ i = 1 \/ ~IsWordChar(t[i - 1])
    /\ i + 3 = Len(t) \/ ~IsWordChar(t[i + 4])

\* _extract_year
extract_year(title) ==
    IF title = <<>> THEN None
    ELSE IF \E i \in 1..Len(title) : YearAt(title, i)
    THEN LET i == CHOOSE k \in 1..Len(title) :
                    YearAt(title, k) /\ \A m \in 1..(k - 1) : ~YearAt(title, m)
         IN  Some(1000 * DigitVal(title[i]) + 100 * DigitVal(title[i + 1])
                  + 10 * DigitVal(title[i + 2]) + DigitVal(title[i + 3]))
    ELSE None

RECURSIVE SubYears(_, _)
\* re.sub(pattern, '', title) from index i on
SubYears(t, i) ==
    IF i > Len(t) THEN <<>>
    ELSE IF YearAt(t, i) THEN SubYears(t, i + 4)
    ELSE <<t[i]>> \o SubYears(t, i + 1)

RECURSIVE SplitFrom(_, _, _)
\* str.split(): the maximal runs of non-whitespace, cur being the run so far
SplitFrom(t, i, cur) ==
    IF i > Len(t) THEN (IF cur = <<>> THEN <<>> ELSE <<cur>>)
    ELSE IF t[i] \in Whitespace
    THEN (IF cur = <<>> THEN <<>> ELSE <<cur>>) \o SplitFrom(t, i + 1, <<>>)
    ELSE SplitFrom(t, i + 1, Append(cur, t[i]))

Split(t) == SplitFrom(t, 1, <<>>)

\* _extract_make_model: <<make, model>>
extract_make_model(title) ==
    IF title = <<>> THEN <<None, None>>
    ELSE LET title_no_year == Strip(SubYears(title, 1))
             words == Split(title_no_year)
         IN  IF Len(words) >= 2
             THEN <<Some(Str(words[1])),
                    Some(IF Len(words) >= 3
                         THEN Str(words[2]) \o " " \o Str(words[3])
                         ELSE Str(words[2]))>>
             ELSE IF Len(words) = 1 THEN <<Some(Str(words[1])), None>>
             ELSE <<None, None>>

RECURSIVE safe_extract_text(_)
\* _safe_extract_text over the inner texts of the locators that match, in
\* locator order: the first one that is not blank once stripped
safe_extract_text(texts) ==
    IF texts = <<>> THEN None
    ELSE IF Strip(texts[1]) /= <<>> THEN Some(Strip(texts[1]))
    ELSE safe_extract_text(Tail(texts))

RECURSIVE IntChars(_)
\* the characters of str(n), n >= 0
IntChars(n) ==
    IF n < 10 THEN <<ToString(n)>> ELSE Append(IntChars(n \div 10), ToString(n % 10))

(***************************************************************************)
(* response_motors_scraper.py: per-element extraction.                     *)
(***************************************************************************)
base_url == "https://responsemotors.com/inventory/"
site == "https://responsemotors.com"

\* str.startswith('http')
StartsWithHttp(t) == Len(t) >= 4 /\ SubSeq(t, 1, 4) = <<"h", "t", "t", "p">>

\* an attribute read resolved to absolute form: `if url and not
\* url.startswith('http')` leaves the empty text and absolute texts alone
Resolve(t) == IF t /= <<>> /\ ~StartsWithHttp(t) THEN site \o Str(t) ELSE Str(t)

\* hashlib.md5(url.encode()).hexdigest()[:16], held abstractly as a digest
\* that is a function of the url and collision-free on the urls of the model
md5_16(url) == "md5:" \o url

\* An element is what the browser session exposes of one listing container:
\*   stale    a query on the element raises
\*   href     the href of its first a[href], None without an anchor
\*   titles   the inner texts of the title locators that match, in order
\*   price    _parse_price of the located price text, None without one
\*   mileage  _parse_mileage of the located mileage text, None without one
\*   src      the src of its first img, None without one
\*   desc     the located description text, None without one
\* a fallback url that leaves the index out
listing_url_no_index(element, idx) ==
    IF element.href /= None
    THEN Resolve(element.href[1])
    ELSE base_url \o "#listing-"

\* the url of the element at index idx: its anchor's, or a positional fallback
listing_url(element, idx) ==
    IF element.href /= None
    THEN Resolve(element.href[1])
    ELSE base_url \o "#listing-" \o ToString(idx)

\* _extract_posting_from_element(element, idx) with datetime.now() = now
extract_posting_from_element(element, idx, now) ==
    IF element.stale THEN Raised
    ELSE
    LET url == listing_url(element, idx)
        posting_id == md5_16(url)
        found == safe_extract_text(element.titles)
        title == IF found /= None THEN found[1]
                 ELSE <<"V", "e", "h", "i", "c", "l", "e", " ">> \o IntChars(idx + 1)
        year == extract_year(title)
        mm == extract_make_model(title)
        thumbnail_url == IF element.src /= None
                         THEN Some(Resolve(element.src[1])) ELSE None
        kw == [f \in FieldSet |->
                 CASE f = "id" -> Some(posting_id)
                   [] f = "source_url" -> Some(url)
                   [] f = "source_platform" -> Some("rm")
                   [] f = "title" -> Some(Str(Strip(title)))
                   [] f = "make" -> mm[1]
                   [] f = "model" -> mm[2]
                   [] f = "year" -> year
                   [] f = "mileage" -> element.mileage
                   [] f = "price" -> element.price
                   [] f = "currency" -> Some("USD")
                   [] f = "description" -> element.desc
                   [] f = "thumbnail_url" -> thumbnail_url
                   [] f = "image_urls" ->
                        Some(IF thumbnail_url /= None /\ thumbnail_url[1] /= ""
                             THEN <<thumbnail_url[1]>> ELSE <<>>)
                   [] f = "scraped_at" -> Some(now)
                   [] f = "features" -> Some(<<>>)
                   [] OTHER -> None]
    IN  CarPosting(kw)

RECURSIVE ExtractFrom(_, _, _)
\* the loop of _extract_listings from index idx on: an element whose
\* extraction raises is logged and skipped
ExtractFrom(elements, clock, idx) ==
    IF idx >= Len(elements) THEN <<>>
    ELSE LET r == extract_posting_from_element(elements[idx + 1], idx, clock[idx + 1])
         IN  (IF r.raised THEN <<>> ELSE r.val) \o ExtractFrom(elements, clock, idx + 1)

\* a loop without the try: one failure ends the extraction with nothing
extract_listings_aborts(elements, clock) ==
    IF \E i \in 1..Len(elements) :
          extract_posting_from_element(elements[i], i - 1, clock[i]).raised
    THEN <<>>
    ELSE ExtractFrom(elements, clock, 0)

\* _extract_listings: elements are the matches of the first selector that
\* has any; with none the page source is dumped and the result is empty
extract_listings(elements, clock) ==
    IF elements = <<>> THEN <<>> ELSE ExtractFrom(elements, clock, 0)

(***************************************************************************)
(* Sample elements.                                                        *)
(***************************************************************************)
Blank == [stale |-> FALSE, href |-> None, titles |-> <<>>, price |-> None,
          mileage |-> None, src |-> None, desc |-> None]

\* a complete card with a relative link and a relative image
ElemCivic ==
    [Blank EXCEPT !.href = Some(<<"/", "a">>),
                  !.titles = << <<" ">>, <<"2", "0", "1", "9", " ", "H", "o", "n", "d", "a", " ", "C", "i", "v", "i", "c", " ", "L", "X">> >>,
                  !.price = Some(259990), !.mileage = Some(45000),
                  !.src = Some(<<"/", "i", ".", "p", "n", "g">>), !.desc = Some("clean")]

\* the same link on a card with another title and <img src="">
ElemCivicAgain ==
    [Blank EXCEPT !.href = Some(<<"/", "a">>),
                  !.titles = << <<"H", "o", "n", "d", "a", "-", "2", "0", "1", "9", " ", "C", "i", "v", "i", "c">> >>,
                  !.src = Some(<<>>)]

\* no anchor, no title
ElemBare == Blank

\* no anchor, a one-word title
ElemTruck == [Blank EXCEPT !.titles = << <<"T", "r", "u", "c", "k">> >>]

\* a title whose year is beyond next year: the schema rejects the record
ElemFuture ==
    [Blank EXCEPT !.href = Some(<<"/", "b">>), !.titles = << <<"2", "0", "9", "9", " ", "C", "o", "n", "c", "e", "p", "t">> >>]

\* <a href=""> and <img src="">
ElemEmptyAttrs ==
    [Blank EXCEPT !.href = Some(<<>>), !.titles = << <<"T", "r", "u", "c", "k">> >>,
                  !.src = Some(<<>>)]

\* an absolute link and an absolute image; a title with a year glued to a
\* letter, a year followed by a comma and a third year
ElemAbsolute ==
    [Blank EXCEPT !.href = Some(<<"h", "t", "t", "p", ":", "/", "/", "x", "/", "c">>),
                  !.titles = << <<"x", "2", "0", "1", "9", " ", "F", "o", "r", "d", " ", "2", "0", "2", "0", ",", " ", "F", "1", "5", "0", " ", "1", "9", "9", "9">> >>,
                  !.src = Some(<<"h", "t", "t", "p", "s", ":", "/", "/", "c", "d", "n", "/", "j", ".", "p", "n", "g">>)]

\* a title that is a year and nothing else, between blanks
ElemYearOnly == [Blank EXCEPT !.titles = << <<" ", "2", "0", "1", "9", " ">> >>]

\* the element handle is detached: every query raises
ElemStale == [Blank EXCEPT !.stale = TRUE]

Elements == {ElemCivic, ElemCivicAgain, ElemBare, ElemTruck, ElemFuture,
             ElemEmptyAttrs, ElemAbsolute, ElemYearOnly, ElemStale}

(***************************************************************************)
(* csv_manager.py: the operations, as functions of the rows of the file.   *)
(***************************************************************************)
\* a lookup that takes the first row, whatever its id
get_posting_by_id_first_row(rows, posting_id) ==
    IF rows = <<>> THEN Returned(None)
    ELSE LET r == row_to_posting(rows[1])
         IN  IF r.raised THEN Raised ELSE Returned(r.val)

RECURSIVE get_posting_by_id(_, _)
\* the first row whose id cell equals posting_id is decoded, and a decoding
\* error propagates; None when no row matches
get_posting_by_id(rows, posting_id) ==
    IF rows = <<>> THEN Returned(None)
    ELSE IF rows[1]["id"] = posting_id
    THEN LET r == row_to_posting(rows[1])
         IN  IF r.raised THEN Raised ELSE Returned(r.val)
    ELSE get_posting_by_id(Tail(rows), posting_id)

RECURSIVE get_all_postings_stops(_)
\* a scan whose try encloses the loop: it ends at the first row that raises
get_all_postings_stops(rows) ==
    IF rows = <<>> THEN <<>>
    ELSE LET r == row_to_posting(rows[1])
         IN  IF r.raised THEN <<>> ELSE r.val \o get_all_postings_stops(Tail(rows))

RECURSIVE get_all_postings(_)
\* a row whose decoding raises is reported and skipped
get_all_postings(rows) ==
    IF rows = <<>> THEN <<>>
    ELSE LET r == row_to_posting(rows[1])
         IN  (IF r.raised THEN <<>> ELSE r.val) \o get_all_postings(Tail(rows))

RECURSIVE InsertDesc(_, _)
\* p goes behind every element whose key is not smaller than its own
InsertDesc(sorted, p) ==
    IF sorted = <<>> THEN <<p>>
    ELSE IF sorted[1]["scraped_at"] >= p["scraped_at"]
    THEN <<sorted[1]>> \o InsertDesc(Tail(sorted), p)
    ELSE <<p>> \o sorted

RECURSIVE SortDescByReversal(_)
\* an ascending sort read backwards: equal keys come out in reverse order
SortDescByReversal(l) ==
    IF l = <<>> THEN <<>>
    ELSE InsertDesc(SortDescByReversal(Tail(l)), l[1])

RECURSIVE SortDesc(_)
\* list.sort(key=lambda p: p.scraped_at, reverse=True): stable, so equal
\* keys keep the order they had
SortDesc(l) ==
    IF l = <<>> THEN <<>>
    ELSE InsertDesc(SortDesc(SubSeq(l, 1, Len(l) - 1)), l[Len(l)])

\* l[:limit], limit >= 0
Slice(l, limit) == SubSeq(l, 1, IF limit < Len(l) THEN limit ELSE Len(l))

get_recent_postings(rows, limit) == Slice(SortDesc(get_all_postings(rows)), limit)

\* sum(1 for _ in reader)
count_postings(rows) == Len(rows)

\* a rewrite whose comparison never matches: every row is kept
remove_posting_keeps_all(rows, posting_id) == rows

RECURSIVE remove_posting(_, _)
\* what _remove_posting writes to the temporary file: every row whose id
\* cell differs from posting_id, in order
remove_posting(rows, posting_id) ==
    IF rows = <<>> THEN <<>>
    ELSE (IF rows[1]["id"] /= posting_id THEN <<rows[1]>> ELSE <<>>)
         \o remove_posting(Tail(rows), posting_id)

(***************************************************************************)
(* The postings the store is driven with: what the extractor makes of the  *)
(* sample elements that yield a record, at every time of the clock.        *)
(***************************************************************************)
StoreElements == {ElemCivic, ElemCivicAgain, ElemBare, ElemEmptyAttrs}

Listings ==
    {extract_posting_from_element(e, 0, t).val[1] : e \in StoreElements, t \in Times}

Ids == {p["id"] : p \in Listings}

NoRet == [op |-> "none", raised |-> FALSE, val |-> <<>>]

Init ==
    /\ file = <<>>
    /\ tmp = None
    /\ pc = "idle"
    /\ arg = None
    /\ pre = <<>>
    /\ is_new = FALSE
    /\ ret = NoRet
    /\ page = <<>>
    /\ nows = <<>>
    /\ gathered = <<>>

extractor_vars == <<page, nows, gathered>>

(***************************************************************************)
(* save_posting, step by step.                                             *)
(***************************************************************************)
\* lines 53-58: the lookup, whose decoding error propagates to the caller
SaveLookup(posting) ==
    /\ pc = "idle"
    /\ LET existing == get_posting_by_id(file, posting["id"])
       IN  /\ ret' = [op |-> "save_posting", raised |-> existing.raised, val |-> <<>>]
           /\ is_new' = (~existing.raised /\ existing.val[1] = None)
           /\ pc' = IF existing.raised THEN "idle"
                    ELSE IF existing.val[1] = None THEN "append"
                    ELSE "remove_write"
    /\ arg' = Some(posting)
    /\ pre' = file
    /\ UNCHANGED <<file, tmp, extractor_vars>>

\* a rewrite that opens csv_path itself for writing: the file is emptied
\* first and filled again by the replace
RemoveWriteInPlace ==
    /\ pc = "remove_write"
    /\ tmp' = Some(remove_posting(file, arg[1]["id"]))
    /\ file' = <<>>
    /\ pc' = "remove_replace"
    /\ UNCHANGED <<arg, pre, is_new, ret, extractor_vars>>

\* _remove_posting, lines 131-141: the temporary file is written
RemoveWrite ==
    /\ pc = "remove_write"
    /\ tmp' = Some(remove_posting(file, arg[1]["id"]))
    /\ pc' = "remove_replace"
    /\ UNCHANGED <<file, arg, pre, is_new, ret, extractor_vars>>

\* _remove_posting, line 143: the temporary file replaces the file
RemoveReplace ==
    /\ pc = "remove_replace"
    /\ file' = tmp[1]
    /\ tmp' = None
    /\ pc' = "append"
    /\ UNCHANGED <<arg, pre, is_new, ret, extractor_vars>>

\* lines 61-66: the row is appended and is_new returned
AppendRow ==
    /\ pc = "append"
    /\ file' = Append(file, writerow(posting_to_row(arg[1])))
    /\ pc' = "idle"
    /\ ret' = [ret EXCEPT !.val = <<is_new>>]
    /\ UNCHANGED <<tmp, arg, pre, is_new, extractor_vars>>

(***************************************************************************)
(* The process is interrupted inside save_posting (KeyboardInterrupt,      *)
(* kill).  The run ends there, with the files as the interruption left     *)
(* them.                                                                   *)
(***************************************************************************)
\* the row a line makes when it is cut after its first k cells: the cells
\* behind the cut are not on disk
Torn(row, k) == [f \in FieldSet |->
                   IF \E i \in 1..k : fieldnames[i] = f THEN row[f] ELSE ""]

\* the numbers of whole cells a cut line is taken to hold: the id alone, the
\* cells up to the title, all but the last
TornCuts == {1, 4, Len(fieldnames) - 1}

\* between two steps: after the lookup, after the temporary file is
\* closed, after the replace
InterruptBetweenSteps ==
    /\ pc \in {"remove_write", "remove_replace", "append"}
    /\ pc' = "stopped"
    /\ UNCHANGED <<file, tmp, arg, pre, is_new, ret, extractor_vars>>

\* lines 134-141: while the temporary file is written, n of its rows done
InterruptTempWrite(n) ==
    /\ pc = "remove_write"
    /\ n < Len(remove_posting(file, arg[1]["id"]))
    /\ tmp' = Some(SubSeq(remove_posting(file, arg[1]["id"]), 1, n))
    /\ pc' = "stopped"
    /\ UNCHANGED <<file, arg, pre, is_new, ret, extractor_vars>>

\* lines 61-64: while the row is appended, k of its cells on disk
InterruptAppend(k) ==
    /\ pc = "append"
    /\ file' = Append(file, Torn(writerow(posting_to_row(arg[1])), k))
    /\ pc' = "stopped"
    /\ UNCHANGED <<tmp, arg, pre, is_new, ret, extractor_vars>>

(***************************************************************************)
(* The reads.  Each forgets the save_posting call made before it.          *)
(***************************************************************************)
Read(op, raised, val) ==
    /\ pc = "idle"
    /\ ret' = [op |-> op, raised |-> raised, val |-> val]
    /\ arg' = None
    /\ pre' = <<>>
    /\ is_new' = FALSE
    /\ UNCHANGED <<file, tmp, pc, extractor_vars>>

GetPostingById(posting_id) ==
    LET r == get_posting_by_id(file, posting_id)
    IN  Read("get_posting_by_id", r.raised, <<posting_id>> \o r.val)

GetAllPostings == Read("get_all_postings", FALSE, <<get_all_postings(file)>>)

GetRecentPostings(limit) ==
    Read("get_recent_postings", FALSE, <<limit, get_recent_postings(file, limit)>>)

CountPostings == Read("count_postings", FALSE, <<count_postings(file)>>)

Next ==
    \/ \E posting \in Listings : SaveLookup(posting)
    \/ RemoveWrite
    \/ RemoveReplace
    \/ AppendRow
    \/ InterruptBetweenSteps
    \/ \E n \in 0..Cardinality(Ids) : InterruptTempWrite(n)
    \/ \E k \in TornCuts : InterruptAppend(k)
    \/ \E posting_id \in Ids : GetPostingById(posting_id)
    \/ GetAllPostings
    \/ \E limit \in 0..MaxLimit : GetRecentPostings(limit)
    \/ CountPostings

Spec == Init /\ [][Next]_vars

(***************************************************************************)
(* The extractor on its own: one page after another.                       *)
(***************************************************************************)
Pages == UNION {[1..n -> Elements] : n \in 0..MaxPageLen}

\* the clock does not run backwards within a page
Clocks(n) == {c \in [1..n -> Times] : \A i \in 1..n, j \in 1..n : i < j => c[i] <= c[j]}

\* a run gathers the inventory page once
Gather(elements, clock) ==
    /\ page = <<>>
    /\ page' = elements
    /\ nows' = clock
    /\ gathered' = extract_listings(elements, clock)
    /\ UNCHANGED <<file, tmp, pc, arg, pre, is_new, ret>>

NextExtract == \E elements \in Pages : \E clock \in Clocks(Len(elements)) : Gather(elements, clock)

SpecExtract == Init /\ [][NextExtract]_vars

(***************************************************************************)
(* The reads over a file found on disk, which may have been edited by      *)
(* hand: rows that decode, rows the decoder tolerates, rows it rejects.    *)
(***************************************************************************)
BaseRow == writerow(posting_to_row(extract_posting_from_element(ElemCivic, 0, 0).val[1]))

SampleRows ==
    { [BaseRow EXCEPT !["id"] = "r1"],
      [BaseRow EXCEPT !["id"] = "r2", !["scraped_at"] = IsoFormat(1)],
      [BaseRow EXCEPT !["id"] = "r3", !["image_urls"] = "", !["features"] = ""],
      \* a year that is no number is read as absent, a price without decimals is read
      [BaseRow EXCEPT !["id"] = "r4", !["scraped_at"] = IsoFormat(1),
                      !["year"] = "abc", !["price"] = "25999"],
      \* rejected: no JSON
      [BaseRow EXCEPT !["id"] = "k1", !["image_urls"] = "[oops"],
      \* rejected: no ISO timestamp
      [BaseRow EXCEPT !["id"] = "k2", !["scraped_at"] = "yesterday"],
      \* rejected by validate_year
      [BaseRow EXCEPT !["id"] = "k3", !["year"] = "1899"] }

SampleIds == {r["id"] : r \in SampleRows}

\* the files of at most MaxRows sample rows, no row twice
DiskFiles ==
    UNION {{f \in [1..n -> SampleRows] : \A i \in 1..n, j \in 1..n : i /= j => f[i] /= f[j]}
           : n \in 0..MaxRows}

InitReads ==
    /\ file \in DiskFiles
    /\ tmp = None
    /\ pc = "idle"
    /\ arg = None
    /\ pre = <<>>
    /\ is_new = FALSE
    /\ ret = NoRet
    /\ page = <<>>
    /\ nows = <<>>
    /\ gathered = <<>>

NextReads ==
    \/ \E posting_id \in SampleIds : GetPostingById(posting_id)
    \/ GetAllPostings
    \/ \E limit \in 0..MaxLimit : GetRecentPostings(limit)
    \/ CountPostings

SpecReads == InitReads /\ [][NextReads]_vars

(***************************************************************************)
(* Properties of the record store.                                         *)
(***************************************************************************)
HasId(rows, posting_id) == \E i \in 1..Len(rows) : rows[i]["id"] = posting_id

FirstWithId(rows, posting_id) ==
    rows[CHOOSE i \in 1..Len(rows) :
           rows[i]["id"] = posting_id /\ \A j \in 1..(i - 1) : rows[j]["id"] /= posting_id]

\* a save_posting call has come to its end, by return or by exception
SaveDone == pc = "idle" /\ ret.op = "save_posting"

\* the row that call writes
NewRow == writerow(posting_to_row(arg[1]))

\* C1: save_posting of a posting whose id no stored row has returns True,
\* and count_postings is then one more than before the call.
C1_InsertReturnsTrueAndCountsOne ==
    (SaveDone /\ ~HasId(pre, arg[1]["id"]))
        => /\ ~ret.raised
           /\ ret.val = <<TRUE>>
           /\ count_postings(file) = count_postings(pre) + 1

C1_Witness ==
    /\ SaveDone
    /\ ~HasId(pre, arg[1]["id"])
    /\ Len(pre) >= 2
    /\ ret.val = <<TRUE>>

\* C2: save_posting of a posting whose id a stored row has, with other field
\* values, returns False, leaves count_postings as it was, and
\* get_posting_by_id then returns the posting saved.
C2_UpdateReturnsFalseAndStoresNewValues ==
    (SaveDone /\ HasId(pre, arg[1]["id"]) /\ FirstWithId(pre, arg[1]["id"]) /= NewRow)
        => /\ ~ret.raised
           /\ ret.val = <<FALSE>>
           /\ count_postings(file) = count_postings(pre)
           /\ get_posting_by_id(file, arg[1]["id"]) = Returned(Some(arg[1]))

\* C3: from a header-only file on, no two rows of the file share an id.
C3_AtMostOneRowPerId ==
    \A i \in 1..Len(file), j \in 1..Len(file) : i /= j => file[i]["id"] /= file[j]["id"]

C3_Witness ==
    /\ SaveDone
    /\ ret.val = <<FALSE>>
    /\ Len(file) >= 3
    /\ file[Len(file)]["id"] = pre[1]["id"]

\* C4: while save_posting replaces a stored id, and after it, the file is
\* either what it was when the call began or the complete new content: the
\* other rows followed by the new row.
C4_UpsertIsAtomic ==
    (ret.op = "save_posting" /\ ~ret.raised /\ HasId(pre, arg[1]["id"]))
        => \/ file = pre
           \/ file = Append(remove_posting(pre, arg[1]["id"]), NewRow)

\* C5: get_posting_by_id and get_all_postings never raise, whatever the rows.
C5_ReadsNeverRaise ==
    ret.op \in {"get_posting_by_id", "get_all_postings"} => ~ret.raised

\* the rows of the file whose decoding raises
CorruptAt(rows) == {i \in 1..Len(rows) : row_to_posting(rows[i]).raised}

\* C6: with exactly one undecodable row among N decodable ones,
\* get_all_postings returns the N decoded records in file order and
\* count_postings returns N + 1.
C6_ScanSkipsTheCorruptRow ==
    (ret.op = "get_all_postings" /\ Cardinality(CorruptAt(file)) = 1)
        => LET c == CHOOSE i \in CorruptAt(file) : TRUE
               N == Len(file) - 1
               res == ret.val[1]
           IN  /\ ~ret.raised
               /\ Len(res) = N
               /\ \A k \in 1..N :
                    res[k] = row_to_posting(file[IF k < c THEN k ELSE k + 1]).val[1]
               /\ count_postings(file) = N + 1

C6_Witness ==
    /\ ret.op = "get_all_postings"
    /\ Len(file) = 3
    /\ CorruptAt(file) = {2}
    /\ Len(ret.val[1]) = 2

\* the number of records that a stable descending sort puts before l[i]
RankDesc(l, i) ==
    Cardinality({j \in 1..Len(l) :
                   \/ l[j]["scraped_at"] > l[i]["scraped_at"]
                   \/ l[j]["scraped_at"] = l[i]["scraped_at"] /\ j < i})

\* C7: get_recent_postings(k) is the first min(k, n) records of
\* get_all_postings in descending scraped_at order, records of equal
\* scraped_at staying in file order.
C7_RecentIsStableDescendingPrefix ==
    ret.op = "get_recent_postings"
        => LET k == ret.val[1]
               res == ret.val[2]
               all == get_all_postings(file)
               m == IF k < Len(all) THEN k ELSE Len(all)
           IN  /\ Len(res) = m
               /\ \A i \in 1..Len(all) :
                    RankDesc(all, i) < m => res[RankDesc(all, i) + 1] = all[i]

C7_Witness ==
    /\ ret.op = "get_recent_postings"
    /\ ret.val[1] = 2
    /\ LET all == get_all_postings(file)
       IN  /\ Len(all) = 3
           /\ all[1]["scraped_at"] < all[2]["scraped_at"]
           /\ all[1]["scraped_at"] = all[3]["scraped_at"]
           /\ ret.val[2] = <<all[2], all[1]>>

\* C8: the row save_posting writes decodes to the posting saved, on every
\* field.
C8_RowRoundTrip ==
    (SaveDone /\ ~ret.raised) => row_to_posting(file[Len(file)]) = Returned(arg[1])

(***************************************************************************)
(* Properties of the extractor.                                            *)
(***************************************************************************)
\* the outcome of the extraction of the i-th element of the page
Outcome(i) == extract_posting_from_element(page[i], i - 1, nows[i])

\* the elements of the page whose extraction succeeds
OkAt == {i \in 1..Len(page) : ~Outcome(i).raised}

\* the place in the result of the record of element i
PlaceOf(i) == Cardinality({j \in OkAt : j < i}) + 1

\* C9: an element whose extraction or validation fails is skipped and the
\* others are kept: the result holds, in page order, exactly the records of
\* the elements whose extraction succeeds.
C9_FailedElementsAreSkipped ==
    /\ Len(gathered) = Cardinality(OkAt)
    /\ \A i \in OkAt : gathered[PlaceOf(i)] = Outcome(i).val[1]

C9_Witness ==
    /\ Len(page) = 2
    /\ page[1] = ElemFuture
    /\ extract_year(page[1].titles[1]) = Some(2099)
    /\ OkAt = {2}
    /\ Len(gathered) = 1
    /\ gathered[1]["title"] = "2019 Honda Civic LX"

\* C10: the id of every record gathered is the digest of its source_url, so
\* records of one source_url share their id; and the elements of a page
\* that have no anchor get the urls <base>#listing-<index>, which differ from
\* one another, as do their ids.
C10_IdFollowsUrlAndFallbacksDiffer ==
    /\ \A k \in 1..Len(gathered) : gathered[k]["id"] = md5_16(gathered[k]["source_url"])
    /\ \A k \in 1..Len(gathered), m \in 1..Len(gathered) :
         gathered[k]["source_url"] = gathered[m]["source_url"]
            => gathered[k]["id"] = gathered[m]["id"]
    /\ \A i \in OkAt : page[i].href = None =>
         gathered[PlaceOf(i)]["source_url"] = base_url \o "#listing-" \o ToString(i - 1)
    /\ \A i \in OkAt, j \in OkAt :
         (i /= j /\ page[i].href = None /\ page[j].href = None)
            => /\ gathered[PlaceOf(i)]["source_url"] /= gathered[PlaceOf(j)]["source_url"]
               /\ gathered[PlaceOf(i)]["id"] /= gathered[PlaceOf(j)]["id"]

C10_Witness ==
    /\ Len(gathered) = 2
    /\ page[1].href = None
    /\ page[2].href = None
    /\ gathered[1]["source_url"] = "https://responsemotors.com/inventory/#listing-0"
    /\ gathered[2]["source_url"] = "https://responsemotors.com/inventory/#listing-1"
    /\ gathered[1]["id"] /= gathered[2]["id"]


\* the title taken for element i: the first located text that is not all
\* whitespace, without the whitespace around it, else the placeholder
HasText(t) == \E j \in 1..Len(t) : t[j] \notin Whitespace

Trimmed(t) ==
    LET inked == {j \in 1..Len(t) : t[j] \notin Whitespace}
        a == CHOOSE j \in inked : \A m \in inked : j <= m
        b == CHOOSE j \in inked : \A m \in inked : j >= m
    IN  SubSeq(t, a, b)

Located(i) == {k \in 1..Len(page[i].titles) : HasText(page[i].titles[k])}

TitleOf(i) ==
    IF Located(i) /= {}
    THEN Trimmed(page[i].titles[CHOOSE k \in Located(i) : \A m \in Located(i) : k <= m])
    ELSE <<"V", "e", "h", "i", "c", "l", "e", " ">> \o IntChars(i)

\* a 4-digit run 19xx or 20xx at index i of t, with a non-word character or
\* the end of the text on either side
YearBetweenNonWords(t, i) ==
    /\ i + 3 <= Len(t)
    /\ \A j \in i..(i + 3) : t[j] \in Digits
    /\ <<t[i], t[i + 1]>> \in {<<"1", "9">>, <<"2", "0">>}
    /\ i > 1 => t[i - 1] \in NonWord
    /\ i + 3 < Len(t) => t[i + 4] \in NonWord

\* a 4-digit run 19xx or 20xx at index i of t that is a whole
\* whitespace-delimited token
YearToken(t, i) ==
    /\ i + 3 <= Len(t)
    /\ \A j \in i..(i + 3) : t[j] \in Digits
    /\ <<t[i], t[i + 1]>> \in {<<"1", "9">>, <<"2", "0">>}
    /\ i > 1 => t[i - 1] \in Whitespace
    /\ i + 3 < Len(t) => t[i + 4] \in Whitespace

YearsIn(t, At(_, _)) == {i \in 1..Len(t) : At(t, i)}

\* the first year of t, None without one
FirstYear(t, At(_, _)) ==
    IF YearsIn(t, At) = {} THEN None
    ELSE LET i == CHOOSE k \in YearsIn(t, At) : \A m \in YearsIn(t, At) : k <= m
         IN  Some(1000 * DigitVal(t[i]) + 100 * DigitVal(t[i + 1])
                  + 10 * DigitVal(t[i + 2]) + DigitVal(t[i + 3]))

\* t without the characters of its years
WithoutYears(t, At(_, _)) ==
    LET kept == {j \in 1..Len(t) : \A i \in YearsIn(t, At) : j < i \/ j > i + 3}
    IN  [k \in 1..Cardinality(kept) |->
           t[CHOOSE j \in kept : Cardinality({m \in kept : m < j}) = k - 1]]

\* the whitespace-delimited tokens of u, in order
TokenStarts(u) ==
    {i \in 1..Len(u) : u[i] \notin Whitespace /\ (i = 1 \/ u[i - 1] \in Whitespace)}

TokenAt(u, i) ==
    LET e == CHOOSE j \in i..Len(u) :
               /\ \A m \in i..j : u[m] \notin Whitespace
               /\ j = Len(u) \/ u[j + 1] \in Whitespace
    IN  [k \in 1..(e - i + 1) |-> u[i + k - 1]]

Token(u, k) ==
    TokenAt(u, CHOOSE i \in TokenStarts(u) :
                 Cardinality({m \in TokenStarts(u) : m < i}) = k - 1)

\* the title, year, make and model of the record of element i are those of
\* its title, the years of a text being what At says
TitleFieldsFollow(i, At(_, _)) ==
    LET t == TitleOf(i)
        u == WithoutYears(t, At)
        n == Cardinality(TokenStarts(u))
        g == gathered[PlaceOf(i)]
    IN  /\ g["title"] = Str(t)
        /\ g["year"] = FirstYear(t, At)
        /\ g["make"] = IF n >= 1 THEN Some(Str(Token(u, 1))) ELSE None
        /\ g["model"] = IF n >= 3 THEN Some(Str(Token(u, 2)) \o " " \o Str(Token(u, 3)))
                        ELSE IF n = 2 THEN Some(Str(Token(u, 2)))
                        ELSE None

\* C11 as stated: the title is the located text or 'Vehicle <i+1>'; year is
\* the first whitespace-delimited token 19xx or 20xx; make and model are the
\* first and the next one or two tokens of the title without its year tokens.
C11_YearIsWhitespaceToken == \A i \in OkAt : TitleFieldsFollow(i, YearToken)

\* C11 as amended: the same with a year being a 4-digit run 19xx or 20xx
\* that has a non-word character or an end of the title on either side,
\* and every such run deleted from the title before it is split.
C11_YearIsWordBounded == \A i \in OkAt : TitleFieldsFollow(i, YearBetweenNonWords)

C11_Witness ==
    /\ Len(page) = 2
    /\ page[1] = ElemCivic
    /\ page[2] = ElemBare
    /\ Len(gathered) = 2
    /\ gathered[1]["year"] = Some(2019)
    /\ gathered[1]["make"] = Some("Honda")
    /\ gathered[1]["model"] = Some("Civic LX")
    /\ gathered[2]["title"] = "Vehicle 2"

(***************************************************************************)
(* Frame and interruption properties of save_posting.                      *)
(***************************************************************************)
\* the rows of other ids than posting_id, in order
Others(rows, posting_id) == SelectSeq(rows, LAMBDA r : r["id"] /= posting_id)

\* C12: after a save_posting call for a posting of id X the rows of other
\* ids are the rows of before, in the order of before, and the row of X is
\* the last row of the file: no row before the last has id X.
C12_OthersUntouchedAndRowOfIdLast ==
    SaveDone
        => /\ Others(file, arg[1]["id"]) = Others(pre, arg[1]["id"])
           /\ Len(file) >= 1
           /\ file[Len(file)]["id"] = arg[1]["id"]
           /\ \A i \in 1..(Len(file) - 1) : file[i]["id"] /= arg[1]["id"]

\* C13: wherever a save_posting call for id X stands or was interrupted,
\* every row of another id that the file held when the call began is still
\* a row of the file.
C13_BystandersSurviveInterruption ==
    ret.op = "save_posting"
        => \A i \in 1..Len(pre) :
             pre[i]["id"] /= arg[1]["id"] => \E j \in 1..Len(file) : file[j] = pre[i]

C13_Witness ==
    /\ pc = "stopped"
    /\ HasId(pre, arg[1]["id"])
    /\ Len(pre) >= 3
    /\ pre[1]["id"] = arg[1]["id"]
    /\ Len(file) = Len(pre)
    /\ file[Len(file)] = Torn(NewRow, 1)

====
